---- MODULE Spec2Model ----
(***************************************************************************)
(* The persister of zeta: merge_new_records (the merge of a batch of       *)
(* records into a destination's Parquet snapshot through an in-memory SQL  *)
(* table) and the drain loop (main / load_wal) that feeds it from the      *)
(* write-ahead log.                                                        *)
(*                                                                         *)
(* Two specifications share the state:                                     *)
(*   SpecMerge  any sequence of direct calls of merge_new_records, the way *)
(*              the unit test test_a calls it;                             *)
(*   Spec       the service: main's loop running load_wal, with the        *)
(*              ingestion side appending log entries concurrently.         *)
(***************************************************************************)
EXTENDS Integers, Sequences, FiniteSets, TLC

(* ------------------------------ bounds -------------------------------- *)

\* Record times are counted in ticks, 0..MaxTime.
MaxTime == 2
\* Ticks per millisecond: the clock is finer than the %.3f of the SQL literal.
TicksPerMs == 2
\* Longest values vector of a record handed to merge_new_records directly.
MaxWidth == 2
\* Longest batch handed to merge_new_records directly.
MaxBatch == 2
\* Direct calls of merge_new_records in one behaviour of SpecMerge.
MaxCalls == 2
\* Log entries appended in one behaviour of Spec.
MaxWal == 3
\* Drain cycles started in one behaviour of Spec.
MaxCycles == 2

(* --------------------------- values and text --------------------------- *)

\* The finite f64 values of the model ("inf" is the other one), and SQL's NULL.
F64Finite == {"1.0", "2.0"}
NULL == "NULL"

\* format!("{}", v) of an f64: Display prints 1.0 as 1.
FormatF64(v) ==
    CASE v = "1.0" -> "1"
      [] v = "2.0" -> "2"
      [] OTHER     -> "inf"

\* What the SQL engine makes of a literal in a DOUBLE column: a number, NULL,
\* or no value at all (inf is read as a column name, which VALUES has not).
SqlDouble(lit) ==
    CASE lit = "1"    -> "1.0"
      [] lit = "2"    -> "2.0"
      [] lit = "NULL" -> NULL
      [] OTHER        -> "error"

\* record.time.format("%Y-%m-%d %H:%M:%S%.3f"): the time cut to milliseconds.
FormatTime(t) == t \div TicksPerMs

\* str::trim of one field of a payload.
Trim(field) ==
    CASE field = " 2.0" -> "2.0"
      [] field = " x"   -> "x"
      [] OTHER          -> field

\* str::parse::<f64>: "Err" for what is no float; inf parses.
ParseF64(s) ==
    CASE s = "1.0" -> "1.0"
      [] s = "2.0" -> "2.0"
      [] s = "inf" -> "inf"
      [] OTHER     -> "Err"

(* ------------------------------- files --------------------------------- *)

\* A snapshot file: missing, a Parquet file with `cols` value columns after
\* the time column, or a file that does not read as Parquet.
Missing == [kind |-> "missing", cols |-> 0, rows |-> <<>>]
Corrupt == [kind |-> "corrupt", cols |-> 0, rows |-> <<>>]
Parquet(cols, rows) == [kind |-> "parquet", cols |-> cols, rows |-> rows]

(* ---------------------- compose_insert_query --------------------------- *)

\* InsertTuple with every value of a record longer than `fields`.
InsertTuple_NoTruncation(fields, record) ==
    [time |-> FormatTime(record.time),
     vals |-> [i \in 1..(IF Len(record.values) > fields
                            THEN Len(record.values) ELSE fields) |->
                  IF i <= Len(record.values)
                    THEN FormatF64(record.values[i])
                    ELSE "NULL"]]

\* One tuple of the INSERT: the time literal and `fields` value literals.
InsertTuple(fields, record) ==
    [time |-> FormatTime(record.time),
     vals |-> [i \in 1..fields |->
                  IF i <= Len(record.values)
                    THEN FormatF64(record.values[i])
                    ELSE "NULL"]]

compose_insert_query(fields, records) ==
    [k \in 1..Len(records) |-> InsertTuple(fields, records[k])]

(* ------------------------- the SQL statements -------------------------- *)

\* CreateTable with the columns of a new table counted from 1: f1..f(n-1).
CreateTable_OneColumnShort(file, fields) ==
    IF file.kind = "parquet"
      THEN [pk |-> FALSE, cols |-> file.cols, rows |-> file.rows]
      ELSE [pk |-> TRUE, cols |-> IF fields = 0 THEN 0 ELSE fields - 1,
            rows |-> <<>>]

\* CREATE TEMP TABLE: from the Parquet file (no constraint comes with it), or
\* a new table whose time column is the primary key.
CreateTable(file, fields) ==
    IF file.kind = "parquet"
      THEN [pk |-> FALSE, cols |-> file.cols, rows |-> file.rows]
      ELSE [pk |-> TRUE, cols |-> fields, rows |-> <<>>]

\* The row a tuple becomes in the table.
TableRow(tuple) ==
    [time |-> tuple.time,
     values |-> [i \in 1..Len(tuple.vals) |-> SqlDouble(tuple.vals[i])]]

\* InsertRejected without the check of the number of columns.
InsertRejected_AnyArity(table, tuples, trailing_comma) ==
    \/ \E k \in 1..Len(tuples) : \E i \in 1..Len(tuples[k].vals) :
          SqlDouble(tuples[k].vals[i]) = "error"
    \/ \E k \in 1..Len(tuples) : Len(tuples[k].vals) = 0 /\ ~trailing_comma
    \/ /\ table.pk
       /\ \E j, k \in 1..Len(tuples) : j < k /\ tuples[j].time = tuples[k].time

\* INSERT INTO tmp VALUES ...: rejected as a whole when a tuple has not the
\* table's number of columns, when a literal is no value, when the table has
\* a primary key (it is then new and empty) and two tuples share a time, or,
\* for a tuple with no value ("('t', )"), when the grammar takes no trailing
\* comma.
InsertRejected(table, tuples, trailing_comma) ==
    \/ \E k \in 1..Len(tuples) : Len(tuples[k].vals) # table.cols
    \/ \E k \in 1..Len(tuples) : \E i \in 1..Len(tuples[k].vals) :
          SqlDouble(tuples[k].vals[i]) = "error"
    \/ \E k \in 1..Len(tuples) : Len(tuples[k].vals) = 0 /\ ~trailing_comma
    \/ /\ table.pk
       /\ \E j, k \in 1..Len(tuples) : j < k /\ tuples[j].time = tuples[k].time

\* InsertInto that replaces the rows of the table by the new rows.
InsertInto_Overwrite(table, tuples) ==
    [table EXCEPT !.rows = [k \in 1..Len(tuples) |-> TableRow(tuples[k])]]

\* INSERT INTO tmp VALUES ...: the new rows are added to the rows of the table.
InsertInto(table, tuples) ==
    [table EXCEPT !.rows = table.rows \o [k \in 1..Len(tuples) |-> TableRow(tuples[k])]]

\* Every way of putting row r into the sorted sequence s that keeps it sorted.
InsertSorted(s, r) ==
    { SubSeq(s, 1, k) \o <<r>> \o SubSeq(s, k + 1, Len(s)) :
        k \in { n \in 0..Len(s) :
                  /\ \A i \in 1..n : s[i].time <= r.time
                  /\ \A i \in (n + 1)..Len(s) : r.time <= s[i].time } }

\* The sorted arrangements of the rows: rows of equal time in any order.
RECURSIVE SortedArrangements(_)
SortedArrangements(rows) ==
    IF rows = <<>> THEN { <<>> }
    ELSE UNION { InsertSorted(s, rows[Len(rows)]) :
                   s \in SortedArrangements(SubSeq(rows, 1, Len(rows) - 1)) }

\* SELECT * FROM tmp without the ORDER BY: the rows as the table holds them.
OrderByTime_TableOrder(rows) == { rows }

\* SELECT * FROM tmp ORDER BY time ASC: the rows by time; the order of rows
\* of equal time is the engine's choice.
OrderByTime(rows) == SortedArrangements(rows)

(* -------------------------- merge_new_records -------------------------- *)

\* What the environment does to one call: nothing, the engine or the read of
\* the file fails, or the COPY fails and leaves the file as it was or partly
\* written; and whether the SQL grammar takes a trailing comma.
Faults == {"none", "engine", "write_untouched", "write_partial"}
Envs == [fault : Faults, trailing_comma : BOOLEAN]

Outcome(res, file) == [res |-> res, file |-> file]

\* read_parquet of a file that is taken for missing when it is no Parquet.
ReadFails_CorruptAsMissing(file) == FALSE

\* CREATE TEMP TABLE ... AS SELECT * FROM read_parquet(path) fails: the file
\* exists and does not read as Parquet.
ReadFails(file) == file.kind = "corrupt"

\* merge_new_records from line 34 on, for a batch with a first record.
MergeInto(file, new_records, env) ==
    IF ReadFails(file) THEN { Outcome("Err", file) }
    ELSE
      LET fields == Len(new_records[1].values)
          table  == CreateTable(file, fields)
          tuples == compose_insert_query(fields, new_records)
      IN  IF InsertRejected(table, tuples, env.trailing_comma)
            THEN { Outcome("Err", file) }
          ELSE IF env.fault = "write_untouched" THEN { Outcome("Err", file) }
          ELSE IF env.fault = "write_partial" THEN { Outcome("Err", Corrupt) }
          ELSE { Outcome("Ok", Parquet(table.cols, rows)) :
                   rows \in OrderByTime(InsertInto(table, tuples).rows) }

\* merge_new_records without the return on an empty batch: no first record,
\* no width, and "INSERT INTO tmp VALUES " is no statement.
merge_new_records_NoEarlyReturn(file, new_records, env) ==
    IF env.fault = "engine" THEN { Outcome("Err", file) }
    ELSE IF new_records = <<>> THEN { Outcome("Err", file) }
    ELSE MergeInto(file, new_records, env)

\* The results merge_new_records can have on `file` with `new_records`.
merge_new_records(file, new_records, env) ==
    IF env.fault = "engine" THEN { Outcome("Err", file) }
    ELSE IF new_records = <<>> THEN { Outcome("Ok", file) }
    ELSE MergeInto(file, new_records, env)

(* ------------------------------- paths --------------------------------- *)

DataRoot == "data"
Projects == {"p1", "p2"}
Schemas == {"s1", "s2"}

\* root_path.join(id).join(schema)
ParquetPath(id, schema) == <<DataRoot, id, schema>>

\* The path of the unit test.
TestPath == <<".", "test.parquet">>

DrainPaths == { ParquetPath(id, schema) : id \in Projects, schema \in Schemas }
Paths == DrainPaths \cup {TestPath}

(* ------------------------------- state --------------------------------- *)

VARIABLES
    files,      \* path -> the snapshot file at that path
    wal,        \* the rows of the wal table, in insertion order
    pc,         \* main: "idle" (sleeping), "merging", "exited", "panicked"
    pending,    \* load_wal's new_row_groups not yet visited: path -> records
    cycles,     \* drain cycles started
    calls,      \* direct calls of merge_new_records made
    last,       \* the last call of merge_new_records: arguments and result
    width0,     \* path -> width of the first successful merge, -1 before it
    fetched,    \* number of log entries pending when the cycle fetched
    merged,     \* log entry -> number of successful merges it was part of
    mergedNow,  \* log entries merged successfully in the current cycle
    quietEnds,  \* the files at the end of each cycle since the last append
    attempts,   \* path -> calls of merge_new_records on it in the current cycle
    composed    \* one use of compose_insert_query: arguments and result

vars == <<files, wal, pc, pending, cycles, calls, last, width0, fetched,
          merged, mergedNow, quietEnds, attempts, composed>>

NoCall == [path |-> <<>>, recs |-> <<>>, before |-> Missing,
           res |-> "none", fault |-> "none"]

EmptyGroups == [k \in {} |-> <<>>]

NoAttempts == [p \in Paths |-> 0]

NotComposed == [fields |-> 0, records |-> <<>>, tuples |-> <<>>, done |-> FALSE]

Init ==
    /\ files = [p \in Paths |-> Missing]
    /\ wal = <<>>
    /\ pc = "idle"
    /\ pending = EmptyGroups
    /\ cycles = 0
    /\ calls = 0
    /\ last = NoCall
    /\ width0 = [p \in Paths |-> -1]
    /\ fetched = 0
    /\ merged = [i \in 1..MaxWal |-> 0]
    /\ mergedNow = {}
    /\ quietEnds = <<>>
    /\ attempts = NoAttempts
    /\ composed = NotComposed

\* One call of merge_new_records(path, recs) with outcome o under env.
Call(path, recs, env, o) ==
    /\ files' = [files EXCEPT ![path] = o.file]
    /\ last' = [path |-> path, recs |-> recs, before |-> files[path],
                res |-> o.res, fault |-> env.fault]
    /\ width0' = IF width0[path] = -1 /\ o.res = "Ok" /\ recs # <<>>
                   THEN [width0 EXCEPT ![path] = Len(recs[1].values)]
                   ELSE width0

(* ------------------------- direct calls (tests) ------------------------ *)

Times == 0..MaxTime

\* The values vectors of the direct calls: every length up to MaxWidth, the
\* values alternating from either start, so that no two positions next to
\* each other hold the same value.
OtherValue(v) == IF v = "1.0" THEN "2.0" ELSE "1.0"
ValueVectors ==
    { [i \in 1..n |-> IF i % 2 = 1 THEN v ELSE OtherValue(v)] :
        n \in 0..MaxWidth, v \in F64Finite }

TestRecords == [destination : {""}, time : Times, values : ValueVectors]

Batches == UNION { [1..n -> TestRecords] : n \in 0..MaxBatch }

MergeCall ==
    /\ calls < MaxCalls
    /\ \E recs \in Batches, env \in Envs :
         \E o \in merge_new_records(files[TestPath], recs, env) :
            Call(TestPath, recs, env, o)
    /\ calls' = calls + 1
    /\ UNCHANGED <<wal, pc, pending, cycles, fetched, merged, mergedNow,
                   quietEnds, attempts, composed>>

NextMerge == MergeCall

SpecMerge == Init /\ [][NextMerge]_vars

(* ----------------- compose_insert_query on its own ---------------------- *)

\* The widths compose_insert_query is given: up to one more than the longest
\* record.
Widths == 0..(MaxWidth + 1)

InitCompose ==
    /\ files = [p \in Paths |-> Missing]
    /\ wal = <<>>
    /\ pc = "idle"
    /\ pending = EmptyGroups
    /\ cycles = 0
    /\ calls = 0
    /\ last = NoCall
    /\ width0 = [p \in Paths |-> -1]
    /\ fetched = 0
    /\ merged = [i \in 1..MaxWal |-> 0]
    /\ mergedNow = {}
    /\ quietEnds = <<>>
    /\ attempts = NoAttempts
    /\ composed \in [fields : Widths, records : Batches,
                     tuples : {<<>>}, done : {FALSE}]

\* compose_insert_query(table, fields, records)
ComposeCall ==
    /\ ~composed.done
    /\ composed' = [composed EXCEPT
                       !.tuples = compose_insert_query(composed.fields,
                                                       composed.records),
                       !.done = TRUE]
    /\ UNCHANGED <<files, wal, pc, pending, cycles, calls, last, width0,
                   fetched, merged, mergedNow, quietEnds, attempts>>

NextCompose == ComposeCall

SpecCompose == InitCompose /\ [][NextCompose]_vars

(* ---------------------------- the log store ---------------------------- *)

\* The payloads the ingestion side appends, as their comma-separated fields.
Payloads == { <<"1.0">>, <<"1.0", " 2.0">>, <<"1.0", " x">>, <<"inf">> }

\* payload.split(",").map(|f| f.trim())
Fields(payload) == [i \in 1..Len(payload) |-> Trim(payload[i])]

\* Some field of the payload does not parse: load_wal returns at that entry.
Malformed(payload) ==
    \E i \in 1..Len(payload) : ParseF64(Fields(payload)[i]) = "Err"

\* The values pushed for a payload whose fields all parse.
Values(payload) == [i \in 1..Len(payload) |-> ParseF64(Fields(payload)[i])]

\* save_to_db: one more row in the wal table, stamped with the time of the
\* append (a clock that ticks with every append).
save_to_db(project_id, schema, payload) ==
    /\ Len(wal) < MaxWal
    /\ wal' = wal \o << [project_id |-> project_id, schema |-> schema,
                         time |-> Len(wal), payload |-> payload] >>
    /\ quietEnds' = <<>>
    /\ UNCHANGED <<files, pc, pending, cycles, calls, last, width0, fetched,
                   merged, mergedNow, attempts, composed>>

(* ------------------------------ load_wal ------------------------------- *)

\* The time load_wal gives every record: the literal of the Record it builds.
TimeA == 0

\* The Record load_wal builds from one row of the wal table.
RecordOf(entry) ==
    [destination |-> ParquetPath(entry.project_id, entry.schema),
     time |-> TimeA,
     values |-> Values(entry.payload)]

new_rows(entries) == [i \in 1..Len(entries) |-> RecordOf(entries[i])]

\* GroupByDestination with each group built newest first.
GroupByDestination_NewestFirst(rows) ==
    [k \in { rows[i].destination : i \in 1..Len(rows) } |->
        LET group == SelectSeq(rows, LAMBDA r : r.destination = k)
        IN  [n \in 1..Len(group) |-> group[Len(group) + 1 - n]]]

\* into_group_map_by(|r| r.destination): the records of each destination, in
\* the order of the rows.
GroupByDestination(rows) ==
    [k \in { rows[i].destination : i \in 1..Len(rows) } |->
        SelectSeq(rows, LAMBDA r : r.destination = k)]

\* The end of a cycle, for the record of the files at the ends of cycles
\* between which nothing was appended.
EndOfCycle(fetchedThen) ==
    quietEnds' = IF Len(wal) = fetchedThen THEN Append(quietEnds, files) ELSE <<>>

\* SqlitePool::connect(...).unwrap(): the log store cannot be reached.
LoadWalConnectFails ==
    /\ pc = "idle"
    /\ cycles < MaxCycles
    /\ pc' = "panicked"
    /\ cycles' = cycles + 1
    /\ pending' = EmptyGroups
    /\ fetched' = 0
    /\ mergedNow' = {}
    /\ attempts' = NoAttempts
    /\ UNCHANGED <<files, wal, calls, last, width0, merged, quietEnds, composed>>

\* rows.try_next().await? or row.try_get(...)?: the query fails.
LoadWalQueryFails ==
    /\ pc = "idle"
    /\ cycles < MaxCycles
    /\ pc' = "exited"
    /\ cycles' = cycles + 1
    /\ pending' = EmptyGroups
    /\ fetched' = 0
    /\ mergedNow' = {}
    /\ attempts' = NoAttempts
    /\ UNCHANGED <<files, wal, calls, last, width0, merged, quietEnds, composed>>

\* A field of some row does not parse: return Ok(()) before any merge; main
\* sleeps and loops.
LoadWalBadPayload ==
    /\ pc = "idle"
    /\ cycles < MaxCycles
    /\ \E i \in 1..Len(wal) : Malformed(wal[i].payload)
    /\ pc' = "idle"
    /\ cycles' = cycles + 1
    /\ pending' = EmptyGroups
    /\ fetched' = Len(wal)
    /\ mergedNow' = {}
    /\ attempts' = NoAttempts
    /\ EndOfCycle(Len(wal))
    /\ UNCHANGED <<files, wal, calls, last, width0, merged, composed>>

\* Every row parses: the records are grouped by destination.
LoadWalGroup ==
    /\ pc = "idle"
    /\ cycles < MaxCycles
    /\ \A i \in 1..Len(wal) : ~Malformed(wal[i].payload)
    /\ pc' = "merging"
    /\ cycles' = cycles + 1
    /\ pending' = GroupByDestination(new_rows(wal))
    /\ fetched' = Len(wal)
    /\ mergedNow' = {}
    /\ attempts' = NoAttempts
    /\ UNCHANGED <<files, wal, calls, last, width0, merged, quietEnds, composed>>

\* The rows of the wal table, among those fetched, that went to destination k.
Contributors(k) ==
    { i \in 1..fetched : ParquetPath(wal[i].project_id, wal[i].schema) = k }

\* The groups with k visited a second time in the same loop.
Remaining_KeepsVisited(groups, k) == groups

\* The groups the loop has still to visit once it has taken k.
Remaining(groups, k) == [d \in DOMAIN groups \ {k} |-> groups[d]]

\* for (k, v) in new_row_groups { merge_new_records(&k, v)? }: one turn of the
\* loop, the groups in the order of the hash map; an Err leaves load_wal and
\* main.
MergeGroup ==
    /\ pc = "merging"
    /\ \E k \in DOMAIN pending, env \in Envs :
         \E o \in merge_new_records(files[k], pending[k], env) :
            /\ Call(k, pending[k], env, o)
            /\ pending' = Remaining(pending, k)
            /\ attempts' = [attempts EXCEPT ![k] = attempts[k] + 1]
            /\ pc' = IF o.res = "Ok" THEN "merging" ELSE "exited"
            /\ merged' = IF o.res = "Ok"
                           THEN [i \in 1..MaxWal |->
                                   IF i \in Contributors(k)
                                     THEN merged[i] + 1 ELSE merged[i]]
                           ELSE merged
            /\ mergedNow' = IF o.res = "Ok"
                              THEN mergedNow \cup Contributors(k)
                              ELSE mergedNow
    /\ UNCHANGED <<wal, cycles, calls, fetched, quietEnds, composed>>

\* No group is left: load_wal returns Ok(()), main sleeps and loops.
LoadWalReturns ==
    /\ pc = "merging"
    /\ DOMAIN pending = {}
    /\ pc' = "idle"
    /\ EndOfCycle(fetched)
    /\ UNCHANGED <<files, wal, pending, cycles, calls, last, width0, fetched,
                   merged, mergedNow, attempts, composed>>

Ingest == \E id \in Projects, schema \in Schemas, payload \in Payloads :
             save_to_db(id, schema, payload)

Next ==
    \/ Ingest
    \/ LoadWalConnectFails
    \/ LoadWalQueryFails
    \/ LoadWalBadPayload
    \/ LoadWalGroup
    \/ MergeGroup
    \/ LoadWalReturns

Spec == Init /\ [][Next]_vars

(* ------------------------------- claims -------------------------------- *)

Sorted(rows) == \A i \in 1..(Len(rows) - 1) : rows[i].time <= rows[i + 1].time

\* The values a record has in a table of `cols` value columns.
Padded(record, cols) == TableRow(InsertTuple(cols, record)).values

\* The rows of a file at time t.
RowsAt(file, t) == { i \in 1..Len(file.rows) : file.rows[i].time = t }

\* C1. Sortedness: whenever a snapshot file exists, its rows are in
\* non-decreasing order of time, whatever the order of the new records and of
\* the rows the file had.
C1_Sorted ==
    \A p \in Paths : files[p].kind = "parquet" => Sorted(files[p].rows)

\* A merge into an existing snapshot succeeded with a batch given latest
\* first, whose last record is earlier than a row the file had.
C1_Witness ==
    /\ last.res = "Ok"
    /\ last.before.kind = "parquet"
    /\ Len(last.recs) = 2
    /\ FormatTime(last.recs[1].time) > FormatTime(last.recs[2].time)
    /\ \E j \in 1..Len(last.before.rows) :
          last.before.rows[j].time > FormatTime(last.recs[2].time)
    /\ Len(files[last.path].rows) >= 3

\* C2. Deduplication: in every snapshot, after any sequence of merges, no two
\* rows have the same time.
C2_NoDuplicateTimes ==
    \A p \in Paths : files[p].kind = "parquet" =>
        \A i, j \in 1..Len(files[p].rows) :
            i < j => files[p].rows[i].time # files[p].rows[j].time

\* C3. Last write wins: when the existing snapshot has a row at time t and the
\* batch (of the snapshot's width, nothing failing around the call) has a row
\* at t with other values, the merge succeeds and the snapshot has exactly one
\* row at t, with the values of the batch's last record at t.
C3_LastWriteWins ==
    ( /\ last.fault = "none"
      /\ last.before.kind = "parquet"
      /\ last.before.cols >= 1
      /\ \A k \in 1..Len(last.recs) : Len(last.recs[k].values) = last.before.cols
      /\ \E k \in 1..Len(last.recs) : \E j \in 1..Len(last.before.rows) :
            /\ last.before.rows[j].time = FormatTime(last.recs[k].time)
            /\ last.before.rows[j].values # last.recs[k].values )
    =>
    ( /\ last.res = "Ok"
      /\ \A k \in 1..Len(last.recs) :
            LET t == FormatTime(last.recs[k].time)
                latest == \A n \in (k + 1)..Len(last.recs) :
                             FormatTime(last.recs[n].time) # t
            IN  latest =>
                  /\ Cardinality(RowsAt(files[last.path], t)) = 1
                  /\ \A i \in RowsAt(files[last.path], t) :
                        files[last.path].rows[i].values = last.recs[k].values )

\* C4. Repeated drain is a no-op: of two drain cycles one after the other
\* with no entry appended from the first one's fetch on, the second leaves
\* every snapshot file as the first left it.
C4_RepeatedDrainNoOp ==
    Len(quietEnds) >= 2 =>
        quietEnds[Len(quietEnds)] = quietEnds[Len(quietEnds) - 1]

\* C5. Consumption: once a cycle is over, no entry still in the log has been
\* part of a successful merge; so no entry is part of two successful merges.
C5_ConsumedOnce ==
    \A i \in 1..MaxWal :
        /\ merged[i] <= 1
        /\ (pc = "idle" /\ i <= Len(wal)) => merged[i] = 0

\* C6. Width invariant: every row of a destination's snapshot has exactly W
\* value columns, W the width of the first successful merge into that
\* destination; no later merge changes it.
C6_WidthInvariant ==
    \A p \in Paths :
        (files[p].kind = "parquet" /\ width0[p] # -1) =>
            /\ files[p].cols = width0[p]
            /\ \A i \in 1..Len(files[p].rows) :
                  Len(files[p].rows[i].values) = width0[p]

\* A later merge into the destination succeeded with a record whose own
\* length is not W.
C6_Witness ==
    /\ last.res = "Ok"
    /\ last.before.kind = "parquet"
    /\ width0[last.path] >= 1
    /\ \E k \in 1..Len(last.recs) : Len(last.recs[k].values) # width0[last.path]
    /\ Len(files[last.path].rows) > Len(last.before.rows)

\* C7. Width comes from the existing snapshot: a batch whose first record is
\* shorter than the width W_old of the existing non-empty snapshot (no record
\* longer, nothing failing around the call) is merged, each record stored
\* padded with NULL to W_old; without a snapshot the width is the length of
\* the first record.
C7_WidthFromSnapshot ==
    /\ ( /\ last.fault = "none"
         /\ last.before.kind = "parquet"
         /\ Len(last.before.rows) >= 1
         /\ last.recs # <<>>
         /\ \A k \in 1..Len(last.recs) :
               /\ Len(last.recs[k].values) >= 1
               /\ Len(last.recs[k].values) <= last.before.cols
         /\ Len(last.recs[1].values) < last.before.cols )
       =>
       ( /\ last.res = "Ok"
         /\ files[last.path].cols = last.before.cols
         /\ \A k \in 1..Len(last.recs) :
               \E i \in RowsAt(files[last.path], FormatTime(last.recs[k].time)) :
                  files[last.path].rows[i].values
                     = Padded(last.recs[k], last.before.cols) )
    /\ ( /\ last.res = "Ok"
         /\ last.before.kind = "missing"
         /\ last.recs # <<>> )
       => files[last.path].cols = Len(last.recs[1].values)

\* An entry the spec takes: every field parses as a finite float.
WellFormed(entry) ==
    \A i \in 1..Len(entry.payload) :
        ParseF64(Fields(entry.payload)[i]) \in F64Finite

\* C8. Per-entry isolation: when a cycle met an entry with a field that does
\* not parse, every well-formed entry that was pending, before or after the
\* bad one, has been merged in that cycle by the time the cycle is over.
C8_PerEntryIsolation ==
    ( /\ pc = "idle"
      /\ cycles >= 1
      /\ \E i \in 1..fetched : Malformed(wal[i].payload) )
    => \A i \in 1..fetched : WellFormed(wal[i]) => i \in mergedNow

\* C9. Per-destination isolation: when a cycle is over, however it ended, no
\* destination that had pending rows in it is left without its merge having
\* been attempted.
C9_PerDestinationIsolation ==
    pc # "merging" => DOMAIN pending = {}

\* C10. The drain loop never terminates on an error: the service is idle or
\* draining in every reachable state.
C10_NeverStops ==
    pc \in {"idle", "merging"}

\* C11. Atomic replace: no snapshot file is ever left partly written, and a
\* call of merge_new_records that fails leaves the file it was given as it
\* was.
C11_AtomicReplace ==
    /\ \A p \in Paths : files[p].kind # "corrupt"
    /\ last.res = "Err" => files[last.path] = last.before

FirstWrite ==
    /\ last.res # "none"
    /\ last.fault = "none"
    /\ last.before.kind = "missing"
    /\ last.recs # <<>>
    /\ Len(last.recs[1].values) >= 1
    /\ \A k \in 1..Len(last.recs) :
          Len(last.recs[k].values) = Len(last.recs[1].values)

\* The last call succeeded and the snapshot is exactly the batch: one row for
\* each record (its time to the millisecond, its values), by time, W columns.
SnapshotIsBatch ==
    /\ last.res = "Ok"
    /\ files[last.path].kind = "parquet"
    /\ files[last.path].cols = Len(last.recs[1].values)
    /\ Len(files[last.path].rows) = Len(last.recs)
    /\ Sorted(files[last.path].rows)
    /\ \A k \in 1..Len(last.recs) :
          \E i \in 1..Len(files[last.path].rows) :
             /\ files[last.path].rows[i].time = FormatTime(last.recs[k].time)
             /\ files[last.path].rows[i].values = last.recs[k].values

\* C13 as stated. First write: a batch of records of one width W >= 1 and of
\* pairwise distinct times, merged into a destination without a file, succeeds
\* and the snapshot is exactly the batch.
C13_FirstWrite_AsStated ==
    ( /\ FirstWrite
      /\ \A j, k \in 1..Len(last.recs) :
            j < k => last.recs[j].time # last.recs[k].time )
    => SnapshotIsBatch

\* C13, amended. First write: a batch of records of one width W >= 1 whose
\* times are pairwise distinct once cut to milliseconds, merged into a
\* destination without a file, succeeds and the snapshot is exactly the batch.
C13_FirstWrite ==
    ( /\ FirstWrite
      /\ \A j, k \in 1..Len(last.recs) :
            j < k => FormatTime(last.recs[j].time) # FormatTime(last.recs[k].time) )
    => SnapshotIsBatch

\* A first write of two records of width 2, the later one first, succeeded.
C13_Witness ==
    /\ FirstWrite
    /\ last.res = "Ok"
    /\ Len(last.recs) = 2
    /\ Len(last.recs[1].values) = 2
    /\ FormatTime(last.recs[1].time) > FormatTime(last.recs[2].time)

C15_PadAndTruncate ==
    composed.done =>
        /\ Len(composed.tuples) = Len(composed.records)
        /\ \A k \in 1..Len(composed.records) :
              LET record == composed.records[k]
                  tuple  == composed.tuples[k]
              IN  /\ tuple.time = FormatTime(record.time)
                  /\ Len(tuple.vals) = composed.fields
                  /\ \A i \in 1..composed.fields :
                        IF i <= Len(record.values)
                          THEN SqlDouble(tuple.vals[i]) = record.values[i]
                          ELSE tuple.vals[i] = "NULL"

\* A query was composed for two records of different times, one shorter and
\* one longer than `fields`.
C15_Witness ==
    /\ composed.done
    /\ Len(composed.records) = 2
    /\ composed.records[1].time # composed.records[2].time
    /\ \E k \in 1..2 : Len(composed.records[k].values) < composed.fields
    /\ \E k \in 1..2 : Len(composed.records[k].values) > composed.fields

\* C16. One merge per destination at a time: a cycle calls merge_new_records
\* at most once for any destination, and a cycle starts only when the one
\* before it is over (main idle, no group left to visit).
C16_OneMergePerDestination ==
    [][ /\ \A p \in Paths : attempts'[p] <= 1
        /\ cycles' # cycles => (pc = "idle" /\ DOMAIN pending = {}) ]_vars

\* The second cycle has merged two destinations, one of them with two
\* records to take.
C16_Witness ==
    /\ cycles = 2
    /\ pc = "merging"
    /\ Cardinality({ p \in Paths : attempts[p] = 1 }) >= 2
    /\ \E p \in Paths : attempts[p] = 1 /\ Cardinality(Contributors(p)) >= 2

\* The rows of the wal table that went to destination k, in the order in which
\* the cycle fetched them.
ContributorSeq(k) ==
    SelectSeq([i \in 1..fetched |-> i],
              LAMBDA i : ParquetPath(wal[i].project_id, wal[i].schema) = k)

\* C17. Row time comes from the log entry: every record load_wal has built
\* has the time of the log entry it was built from, so entries of different
\* times give records of different times.
C17_TimeFromEntry ==
    pc = "merging" =>
        \A k \in DOMAIN pending : \A n \in 1..Len(pending[k]) :
            pending[k][n].time = wal[ContributorSeq(k)[n]].time

\* C18. Routing: while a cycle merges, every group still to visit is keyed by
\* a path built from (project_id, schema) and holds exactly the records of
\* the fetched entries of that path, in the order in which they were fetched;
\* every fetched entry's record is in the group of its own path, or that
\* group has been visited.
C18_Routing ==
    pc = "merging" =>
        /\ \A k \in DOMAIN pending :
              /\ k \in DrainPaths
              /\ Len(pending[k]) >= 1
              /\ Len(pending[k]) = Len(ContributorSeq(k))
              /\ \A n \in 1..Len(pending[k]) :
                    /\ pending[k][n].destination = k
                    /\ pending[k][n].values
                          = Values(wal[ContributorSeq(k)[n]].payload)
        /\ \A i \in 1..fetched :
              LET k == ParquetPath(wal[i].project_id, wal[i].schema)
              IN  k \in DOMAIN pending \/ attempts[k] = 1

\* A cycle has grouped its records and visited no group yet: there are two
\* groups, and one of them holds two records of different values.
C18_Witness ==
    /\ pc = "merging"
    /\ \A p \in Paths : attempts[p] = 0
    /\ Cardinality(DOMAIN pending) >= 2
    /\ \E k \in DOMAIN pending :
          /\ Len(pending[k]) = 2
          /\ pending[k][1].values # pending[k][2].values

\* The number of rows of `rows` equal to r.
Occurrences(rows, r) == Cardinality({ i \in 1..Len(rows) : rows[i] = r })

\* C19. History is never lost by a successful merge: when merge_new_records
\* returns Ok on a destination that had a snapshot, every row of the previous
\* snapshot, same time and values, is in the new snapshot at least as many
\* times as before, and the new snapshot has the previous rows and one row
\* for each new record, no other.
C19_HistoryKept ==
    (last.res = "Ok" /\ last.before.kind = "parquet") =>
        /\ files[last.path].kind = "parquet"
        /\ \A i \in 1..Len(last.before.rows) :
              Occurrences(files[last.path].rows, last.before.rows[i])
                >= Occurrences(last.before.rows, last.before.rows[i])
        /\ Len(files[last.path].rows)
              = Len(last.before.rows) + Len(last.recs)

\* A merge of two records succeeded on a snapshot that had a row, one of the
\* records at the time of that row with other values.
C19_Witness ==
    /\ last.res = "Ok"
    /\ last.before.kind = "parquet"
    /\ Len(last.before.rows) >= 1
    /\ Len(last.recs) = 2
    /\ \E i \in 1..Len(last.before.rows) : \E k \in 1..Len(last.recs) :
          /\ FormatTime(last.recs[k].time) = last.before.rows[i].time
          /\ Padded(last.recs[k], last.before.cols) # last.before.rows[i].values

\* The destination of an entry of the log.
DestinationOf(entry) == ParquetPath(entry.project_id, entry.schema)

\* C20. Eventual persistence: when a drain cycle is over, every well-formed
\* entry that was in the log when the cycle fetched, and whose series has no
\* malformed entry in the log, has a row with its values in the snapshot of
\* its destination, whatever malformed entries the log holds for other
\* series.
C20_EventualPersistence ==
    (pc = "idle" /\ cycles >= 1) =>
        \A i \in 1..fetched :
            ( /\ WellFormed(wal[i])
              /\ \A j \in 1..Len(wal) :
                    Malformed(wal[j].payload)
                      => DestinationOf(wal[j]) # DestinationOf(wal[i]) )
            => LET file == files[DestinationOf(wal[i])]
               IN  /\ file.kind = "parquet"
                   /\ \E n \in 1..Len(file.rows) :
                         file.rows[n].values
                           = Padded(RecordOf(wal[i]), file.cols)

====
